---- MODULE Spec2Model ----
(***************************************************************************)
(* A model of src/tictactoe.py: the Game object (game_array, turn), its    *)
(* move operations, the minimax search with its sqlite score table, and    *)
(* the play_against_ai driver.                                             *)
(*                                                                         *)
(* Python lists are 0-based; game_array is a function on 0..size*size-1 so *)
(* that cell indices are those of the source.  Lists that the code only    *)
(* iterates over (patterns, empty indices, players) are sequences.         *)
(***************************************************************************)
EXTENDS Integers, Sequences, FiniteSets, TLC

VARIABLES
    game_array,   \* Game.game_array
    turn,         \* Game.turn
    db,           \* rows of the minimax_scores table, as key -> score
    last,         \* the last call made on the game and what it returned / raised
    calls         \* number of best_move calls made so far

vars == <<game_array, turn, db, last, calls>>

(***************************************************************************)
(* Program constants and input bounds                                      *)
(***************************************************************************)
size == 3
num_players == 2

\* How many best_move calls a behaviour of SpecSearch makes at most, and how
\* many calls' results the table may hold when a run of SpecRerun is stopped.
MaxCalls == 1

\* The largest board size create_winning_patterns is applied to.
MaxN == 6

\* How far beyond either end of the valid index range the positions passed
\* to is_position_taken / make_move reach.
MaxOff == 1

\* Player(symbol="X", minimax_score=-1), Player(symbol="O", minimax_score=1, is_ai=against_ai)
players ==
    << [symbol |-> "X", minimax_score |-> -1, is_ai |-> FALSE],
       [symbol |-> "O", minimax_score |-> 1, is_ai |-> TRUE] >>

Symbols == {" ", "X", "O"}

\* Python's seq[i] for a list held as a TLA+ sequence: negative i counts from the end.
PyIndex(seq, i) == IF i >= 0 THEN seq[i + 1] ELSE seq[Len(seq) + i + 1]

(***************************************************************************)
(* Module-level functions                                                  *)
(***************************************************************************)
\* create_winning_patterns with the anti-diagonal started at index 0
create_winning_patterns_from_corner(n) ==
    LET row(i) == [j \in 1..n |-> (j - 1) + i * n]
        col(i) == [j \in 1..n |-> i + (j - 1) * n]
    IN  [k \in 1..(2 * n) |->
            IF k % 2 = 1 THEN row((k - 1) \div 2) ELSE col((k - 2) \div 2)]
        \o << [i \in 1..n |-> (i - 1) * n + (i - 1)] >>
        \o << [i \in 1..n |-> (i - 1) * (n - 1)] >>

create_winning_patterns(n) ==
    LET row(i) == [j \in 1..n |-> (j - 1) + i * n]
        col(i) == [j \in 1..n |-> i + (j - 1) * n]
    IN  [k \in 1..(2 * n) |->
            IF k % 2 = 1 THEN row((k - 1) \div 2) ELSE col((k - 2) \div 2)]
        \o << [i \in 1..n |-> (i - 1) * n + (i - 1)] >>
        \o << [i \in 1..n |-> (i - 1) * (n - 1) + (n - 1)] >>

\* Game.winning_patterns, computed once at construction
winning_patterns == create_winning_patterns(size)

is_winning_move(n, array, symbol) ==
    LET patterns == IF n = size THEN winning_patterns ELSE create_winning_patterns(n)
    IN  \E k \in 1..Len(patterns) :
            \A j \in 1..Len(patterns[k]) : array[patterns[k][j]] = symbol

\* [idx for idx, value in enumerate(array) if value == " "]: the indices
\* holding " ", ascending
Indices(array) == [k \in 1..Cardinality(DOMAIN array) |-> k - 1]

get_empty_indices(array) == SelectSeq(Indices(array), LAMBDA idx : array[idx] = " ")

(***************************************************************************)
(* Game                                                                    *)
(***************************************************************************)
\* Game.__init__: the fields the operations read
NewGame == [game_array |-> [i \in 0..(size * size - 1) |-> " "], turn |-> 1]

current_player(self) == PyIndex(players, (self.turn % num_players) - 1)

\* A call's outcome: the kind of value returned (ret: "True", "False", "None",
\* or "int" with the integer in val) or the exception raised (exc).
RetBool(b) == [ret |-> IF b THEN "True" ELSE "False", val |-> 0, exc |-> "None"]
RetInt(n) == [ret |-> "int", val |-> n, exc |-> "None"]
RetNone == [ret |-> "None", val |-> 0, exc |-> "None"]
Raised(e) == [ret |-> "None", val |-> 0, exc |-> e]

\* list indexing game_array[position]: -len <= position < len, else IndexError
InRange(array, position) ==
    LET len == Cardinality(DOMAIN array)
    IN  -len <= position /\ position < len

Cell(array, position) ==
    LET len == Cardinality(DOMAIN array)
    IN  IF position >= 0 THEN position ELSE position + len

is_position_taken(self, position) ==
    LET array_size == Cardinality(DOMAIN self.game_array)
    IN  IF position >= array_size THEN Raised("ValueError")
        ELSE IF ~InRange(self.game_array, position) THEN Raised("IndexError")
        ELSE RetBool(self.game_array[Cell(self.game_array, position)] # " ")

get_winner(self) ==
    IF \E k \in 1..Len(players) : is_winning_move(size, self.game_array, players[k].symbol)
    THEN current_player(self).symbol
    ELSE "None"

\* is_array_full with any() for all()
is_array_full_any(self) == \E i \in DOMAIN self.game_array : self.game_array[i] # " "

is_array_full(self) == \A i \in DOMAIN self.game_array : self.game_array[i] # " "

\* is_end_of_game without the test for a winning pattern
is_end_of_game_only_when_full(self) == is_array_full(self)

is_end_of_game(self) ==
    is_winning_move(size, self.game_array, current_player(self).symbol)
    \/ is_array_full(self)

clear_spot(self, position) ==
    [self EXCEPT !.game_array[Cell(self.game_array, position)] = " ",
                 !.turn = self.turn - 1]

\* make_move with the occupied-cell test left out
make_move_unchecked(self, position) ==
    LET taken == is_position_taken(self, position)
    IN  IF taken.exc # "None" THEN [out |-> Raised(taken.exc), self |-> self]
        ELSE LET placed == [self EXCEPT !.game_array[Cell(self.game_array, position)] =
                                            current_player(self).symbol]
             IN  IF ~is_end_of_game(placed)
                 THEN [out |-> RetBool(FALSE), self |-> [placed EXCEPT !.turn = placed.turn + 1]]
                 ELSE [out |-> RetBool(TRUE), self |-> placed]

\* make_move advancing the turn before the end-of-game test, on every accepted move
make_move_always_increments(self, position) ==
    LET taken == is_position_taken(self, position)
    IN  IF taken.exc # "None" THEN [out |-> Raised(taken.exc), self |-> self]
        ELSE IF taken.ret = "True" THEN [out |-> Raised("MoveException"), self |-> self]
        ELSE LET placed == [self EXCEPT !.game_array[Cell(self.game_array, position)] =
                                            current_player(self).symbol]
                 moved == [placed EXCEPT !.turn = placed.turn + 1]
             IN  [out |-> RetBool(is_end_of_game(placed)), self |-> moved]

\* make_move never advancing the turn
make_move_never_increments(self, position) ==
    LET taken == is_position_taken(self, position)
    IN  IF taken.exc # "None" THEN [out |-> Raised(taken.exc), self |-> self]
        ELSE IF taken.ret = "True" THEN [out |-> Raised("MoveException"), self |-> self]
        ELSE LET placed == [self EXCEPT !.game_array[Cell(self.game_array, position)] =
                                            current_player(self).symbol]
             IN  [out |-> RetBool(is_end_of_game(placed)), self |-> placed]

\* make_move returns the call's outcome and the game as the call leaves it
make_move(self, position) ==
    LET taken == is_position_taken(self, position)
    IN  IF taken.exc # "None" THEN [out |-> Raised(taken.exc), self |-> self]
        ELSE IF taken.ret = "True" THEN [out |-> Raised("MoveException"), self |-> self]
        ELSE LET placed == [self EXCEPT !.game_array[Cell(self.game_array, position)] =
                                            current_player(self).symbol]
             IN  IF ~is_end_of_game(placed)
                 THEN [out |-> RetBool(FALSE), self |-> [placed EXCEPT !.turn = placed.turn + 1]]
                 ELSE [out |-> RetBool(TRUE), self |-> placed]

(***************************************************************************)
(* The score table minimax_scores and the search                           *)
(***************************************************************************)
\* str(game_array): Python's text of a list of one-character strings,
\* e.g. "['X', ' ', 'O']"
repr == [s \in Symbols |-> "'" \o s \o "'"]

RECURSIVE StrFrom(_, _)
StrFrom(array, i) ==
    IF i + 1 \notin DOMAIN array THEN repr[array[i]]
    ELSE repr[array[i]] \o ", " \o StrFrom(array, i + 1)

\* a key that leaves out the first cell
str_without_first_cell(array) == "[" \o StrFrom(array, 1) \o "]"

str(array) == IF DOMAIN array = {} THEN "[]" ELSE "[" \o StrFrom(array, 0) \o "]"

\* The table is held as key -> score of the first row with that key, which is
\* the row fetchone() returns; a later INSERT of the same key adds a row that
\* no SELECT ever returns.
EmptyDb == << >>

\* a lookup that answers with the opposite of the stored score
get_score_from_db_negated(array, d) ==
    IF str(array) \in DOMAIN d THEN RetInt(0 - d[str(array)]) ELSE RetNone

get_score_from_db(array, d) ==
    LET key == str(array)
    IN  IF key \in DOMAIN d THEN RetInt(d[key]) ELSE RetNone

set_score_in_db(array, score, d) ==
    LET key == str(array)
    IN  IF key \in DOMAIN d THEN d ELSE d @@ (key :> score)

\* a minimizer that keeps the larger score
min_as_max(a, b) == IF a >= b THEN a ELSE b

\* a maximizer that keeps the smaller score
max_as_min(a, b) == IF a <= b THEN a ELSE b

max(a, b) == IF a >= b THEN a ELSE b
min(a, b) == IF a <= b THEN a ELSE b

\* game_array[idx] = " " after the recursive call
Restore(array, idx) == [array EXCEPT ![idx] = " "]

\* minimax works on the caller's list in place: its result carries the score,
\* the list and the table as the call leaves them, and (intact) whether this
\* call and every call below it left the list as it was at entry.
Result(score, d, array, intact) ==
    [score |-> score, db |-> d, game_array |-> array, intact |-> intact]

\* a result with intact lowered by what a call below reported
Keep(sub, r) == [r EXCEPT !.intact = r.intact /\ sub.intact]

\* game_array[idx] = players[1].symbol (maximizer) or players[0].symbol
Mark(array, idx, plrs, is_maximizer) ==
    [array EXCEPT ![idx] = IF is_maximizer THEN plrs[2].symbol ELSE plrs[1].symbol]

RECURSIVE minimax(_, _, _, _, _)
RECURSIVE minimax_loop(_, _, _, _, _, _, _)

\* score = minimax(...); set_score_in_db(game_array, score)
minimax_store(sub) ==
    Result(sub.score, set_score_in_db(sub.game_array, sub.score, sub.db),
           sub.game_array, sub.intact)

\* score = get_score_from_db(game_array); if score is None: ...
minimax_score(marked, plrs, n, is_maximizer, d, found) ==
    IF found.ret = "None"
    THEN minimax_store(minimax(marked, plrs, n, ~is_maximizer, d))
    ELSE Result(found.val, d, marked, TRUE)

\* game_array[idx] = " "; best_score = max/min(score, best_score); next idx
minimax_next(plrs, n, is_maximizer, idxs, best_score, sub) ==
    IF (IF is_maximizer THEN max(sub.score, best_score)
        ELSE min(sub.score, best_score)) = sub.score
    THEN Keep(sub, minimax_loop(Restore(sub.game_array, Head(idxs)), plrs, n,
                                is_maximizer, Tail(idxs), sub.score, sub.db))
    ELSE Keep(sub, minimax_loop(Restore(sub.game_array, Head(idxs)), plrs, n,
                                is_maximizer, Tail(idxs), best_score, sub.db))

\* for idx in get_empty_indices(game_array): ... return best_score
minimax_loop(array, plrs, n, is_maximizer, idxs, best_score, d) ==
    IF idxs = << >>
    THEN Result(best_score, d, array, TRUE)
    ELSE minimax_next(plrs, n, is_maximizer, idxs, best_score,
             minimax_score(Mark(array, Head(idxs), plrs, is_maximizer), plrs, n,
                           is_maximizer, d,
                           get_score_from_db(Mark(array, Head(idxs), plrs, is_maximizer), d)))

\* the list at return compared with the list at entry
Entered(array, r) == [r EXCEPT !.intact = r.intact /\ r.game_array = array]

minimax(array, plrs, n, is_maximizer, d) ==
    IF is_winning_move(n, array, plrs[1].symbol)
    THEN Result(plrs[1].minimax_score, d, array, TRUE)
    ELSE IF is_winning_move(n, array, plrs[2].symbol)
    THEN Result(plrs[2].minimax_score, d, array, TRUE)
    ELSE IF get_empty_indices(array) = << >>
    THEN Result(0, d, array, TRUE)
    ELSE Entered(array,
             minimax_loop(array, plrs, n, is_maximizer, get_empty_indices(array),
                          IF is_maximizer THEN -9999 ELSE 9999, d))

\* copy.deepcopy(self): a game sharing nothing with self
deepcopy(self) == self

\* what best_move's search returns: the move, the table, the searched game
Found(move, d, game_copy, intact) ==
    [out |-> move, db |-> d, game_copy |-> game_copy, intact |-> intact]

RECURSIVE best_move_loop(_, _, _, _, _)

\* best_move keeping the last of the best moves (>= for >)
best_move_pick_last(idx, cells, move, best_score, game_copy, sub) ==
    IF sub.score >= best_score
    THEN Keep(sub, best_move_loop(
                       clear_spot([game_copy EXCEPT !.game_array = sub.game_array], idx),
                       cells, RetInt(idx), sub.score, sub.db))
    ELSE Keep(sub, best_move_loop(
                       clear_spot([game_copy EXCEPT !.game_array = sub.game_array], idx),
                       cells, move, best_score, sub.db))

\* game_copy.clear_spot(idx); if score > best_score: ...; next idx
best_move_pick(idx, cells, move, best_score, game_copy, sub) ==
    IF sub.score > best_score
    THEN Keep(sub, best_move_loop(
                       clear_spot([game_copy EXCEPT !.game_array = sub.game_array], idx),
                       cells, RetInt(idx), sub.score, sub.db))
    ELSE Keep(sub, best_move_loop(
                       clear_spot([game_copy EXCEPT !.game_array = sub.game_array], idx),
                       cells, move, best_score, sub.db))

\* best_move scoring its move as if the AI moved again (is_maximizer True)
best_move_try_moves_again(idx, cells, move, best_score, d, moved) ==
    IF moved.out.exc # "None"
    THEN Found(Raised(moved.out.exc), d, moved.self, TRUE)
    ELSE best_move_pick(idx, cells, move, best_score, moved.self,
                        minimax(moved.self.game_array, players, size, TRUE, d))

\* end_of_game = game_copy.make_move(idx); score = minimax(..., False)
best_move_try(idx, cells, move, best_score, d, moved) ==
    IF moved.out.exc # "None"
    THEN Found(Raised(moved.out.exc), d, moved.self, TRUE)
    ELSE best_move_pick(idx, cells, move, best_score, moved.self,
                        minimax(moved.self.game_array, players, size, FALSE, d))

\* for idx in empty_cells: ... return move
best_move_loop(game_copy, empty_cells, move, best_score, d) ==
    IF empty_cells = << >>
    THEN Found(move, d, game_copy, TRUE)
    ELSE best_move_try(Head(empty_cells), Tail(empty_cells), move, best_score, d,
                       make_move(game_copy, Head(empty_cells)))

search(game_copy, d) ==
    best_move_loop(game_copy, get_empty_indices(game_copy.game_array), RetNone, -9999, d)

\* the results of best_move: outcome, table, and the game the call was made on
Searched(self, r) == [out |-> r.out, db |-> r.db, self |-> self, intact |-> r.intact]

\* best_move searching on self instead of a copy
AfterSearch(r) == Searched(r.game_copy, r)

best_move_in_place(self, d) == AfterSearch(search(self, d))

\* best_move returns the call's outcome, the table and the game as the call leaves them
best_move(self, d) == Searched(self, search(deepcopy(self), d))

(***************************************************************************)
(* Spec: a game driven by arbitrary calls of make_move and                 *)
(* is_position_taken, with any integer position near the index range.      *)
(***************************************************************************)
Self == [game_array |-> game_array, turn |-> turn]

Positions == (0 - size * size - MaxOff) .. (size * size + MaxOff - 1)

Call(op, out) == [op |-> op] @@ out

Init ==
    /\ game_array = NewGame.game_array
    /\ turn = NewGame.turn
    /\ db = EmptyDb
    /\ last = Call("init", RetNone)
    /\ calls = 0

MakeMove(p) ==
    LET r == make_move(Self, p)
    IN  /\ game_array' = r.self.game_array
        /\ turn' = r.self.turn
        /\ last' = Call("make_move", r.out)
        /\ UNCHANGED <<db, calls>>

IsPositionTaken(p) ==
    /\ last' = Call("is_position_taken", is_position_taken(Self, p))
    /\ UNCHANGED <<game_array, turn, db, calls>>

Next ==
    \/ \E p \in Positions : MakeMove(p)
    \/ \E p \in Positions : IsPositionTaken(p)

Spec == Init /\ [][Next]_vars

(***************************************************************************)
(* SpecSearch: one game of legal alternating play in which either side     *)
(* makes any legal move, and best_move may be called whenever it is the    *)
(* AI's turn; the score table persists from call to call.                  *)
(***************************************************************************)
\* the driver's end_of_game: the last make_move returned True
GameOver == last.op = "make_move" /\ last.ret = "True"

LegalMove(p) ==
    /\ ~GameOver
    /\ calls < MaxCalls
    /\ is_position_taken(Self, p).ret = "False"
    /\ MakeMove(p)

BestMove ==
    /\ ~GameOver
    /\ calls < MaxCalls
    /\ current_player(Self).is_ai
    /\ \E r \in {best_move(Self, db)} :
           /\ game_array' = r.self.game_array
           /\ turn' = r.self.turn
           /\ db' = r.db
           /\ last' = Call("best_move", r.out)
           /\ calls' = calls + 1

NextSearch ==
    \/ \E p \in DOMAIN game_array : LegalMove(p)
    \/ BestMove

SpecSearch == Init /\ [][NextSearch]_vars

(***************************************************************************)
(* SpecAI: one run of play_against_ai.  The human (X) enters any free      *)
(* position (position_input accepts nothing else); the AI (O) plays what   *)
(* best_move returns.                                                      *)
(***************************************************************************)
HumanTurn(p) ==
    /\ ~GameOver
    /\ ~current_player(Self).is_ai
    /\ p \in DOMAIN game_array
    /\ is_position_taken(Self, p).ret = "False"
    /\ MakeMove(p)

\* position = game.best_move(); end_of_game = game.make_move(position)
AITurn ==
    /\ ~GameOver
    /\ current_player(Self).is_ai
    /\ \E r \in {best_move(Self, db)} :
       \E m \in {make_move(r.self, r.out.val)} :
           /\ r.out.ret = "int"
           /\ game_array' = m.self.game_array
           /\ turn' = m.self.turn
           /\ db' = r.db
           /\ last' = Call("make_move", m.out)
           /\ calls' = calls + 1

NextAI ==
    \/ \E p \in DOMAIN game_array : HumanTurn(p)
    \/ AITurn

SpecAI == Init /\ [][NextAI]_vars

(***************************************************************************)
(* SpecRerun: play_against_ai run again and again on the same database     *)
(* file.  A run stops when its game is over or when it is interrupted at   *)
(* the human's prompt; runs are stopped only while the table holds the     *)
(* results of at most MaxCalls calls of best_move, the run after that is   *)
(* played to its end.                                                      *)
(***************************************************************************)
Restart ==
    /\ GameOver \/ ~current_player(Self).is_ai
    /\ calls > 0
    /\ calls <= MaxCalls
    /\ game_array' = NewGame.game_array
    /\ turn' = NewGame.turn
    /\ last' = Call("init", RetNone)
    /\ UNCHANGED <<db, calls>>

NextRerun ==
    \/ \E p \in DOMAIN game_array : HumanTurn(p)
    \/ AITurn
    \/ Restart

SpecRerun == Init /\ [][NextRerun]_vars

(***************************************************************************)
(* SpecMinimax: minimax called on any list of size*size cells, each " ",   *)
(* "X" or "O", with either value of is_maximizer and the score table as    *)
(* the calls before have left it.                                          *)
(***************************************************************************)
InitMinimax ==
    /\ game_array \in [0..(size * size - 1) -> Symbols]
    /\ turn = NewGame.turn
    /\ db = EmptyDb
    /\ last = Call("init", RetNone)
    /\ calls = 0

Minimax(is_maximizer) ==
    /\ calls < MaxCalls
    /\ \E r \in {minimax(game_array, players, size, is_maximizer, db)} :
           /\ game_array' = r.game_array
           /\ db' = r.db
           /\ last' = Call("minimax", RetInt(r.score))
           /\ calls' = calls + 1
           /\ UNCHANGED turn

NextMinimax == \E is_maximizer \in BOOLEAN : Minimax(is_maximizer)

SpecMinimax == InitMinimax /\ [][NextMinimax]_vars

(***************************************************************************)
(* The value of a position, defined without the search: by backward        *)
(* induction over the number of empty cells.  A board with a full pattern  *)
(* of X is worth -1, else one with a full pattern of O +1, else a full     *)
(* board 0; any other board is worth the best of its successors for the    *)
(* side to move, O (maximizing) where X has placed an odd number of marks  *)
(* more than O, X (minimizing) elsewhere.                                  *)
(***************************************************************************)
Boards == [0..(size * size - 1) -> Symbols]

Empties(array) == {i \in DOMAIN array : array[i] = " "}

Count(array, symbol) == Cardinality({i \in DOMAIN array : array[i] = symbol})

OToMove(array) == (Count(array, "X") - Count(array, "O")) % 2 = 1

Largest(S) == CHOOSE v \in S : \A w \in S : w <= v

Smallest(S) == CHOOSE v \in S : \A w \in S : v <= w

ValueOver(array, table) ==
    IF is_winning_move(size, array, "X") THEN -1
    ELSE IF is_winning_move(size, array, "O") THEN 1
    ELSE IF Empties(array) = {} THEN 0
    ELSE IF OToMove(array)
    THEN Largest({table[[array EXCEPT ![i] = "O"]] : i \in Empties(array)})
    ELSE Smallest({table[[array EXCEPT ![i] = "X"]] : i \in Empties(array)})

RECURSIVE ValuesFrom(_, _)
ValuesFrom(k, table) ==
    IF k > size * size THEN table
    ELSE ValuesFrom(k + 1,
             table @@ [b \in {c \in Boards : Cardinality(Empties(c)) = k}
                           |-> ValueOver(b, table)])

GameValue == ValuesFrom(0, << >>)

\* the value for O of placing O's mark on cell i
ValueOfMove(array, i) == GameValue[[array EXCEPT ![i] = "O"]]

\* the cells on which O's mark wins by force, and those on which it wins at once
WinningCells(array) == {i \in Empties(array) : ValueOfMove(array, i) = 1}

ImmediateWins(array) ==
    {i \in Empties(array) : is_winning_move(size, [array EXCEPT ![i] = "O"], "O")}

\* the smallest of the cells whose value no other cell exceeds
FirstOptimal(array) ==
    Smallest({i \in Empties(array) :
                 \A j \in Empties(array) : ValueOfMove(array, j) <= ValueOfMove(array, i)})

\* the boards that array can become: every cell marked in array keeps its mark
Successors(array) == {b \in Boards : \A i \in DOMAIN array : array[i] # " " => b[i] = array[i]}

Occupied == Cardinality({i \in DOMAIN game_array : game_array[i] # " "})

(***************************************************************************)
(* Properties of the search                                                *)
(***************************************************************************)
\* C1 (SpecSearch): whenever best_move is called on a board of legal play with
\* the game not over and O to move, it returns the smallest empty index among
\* those whose resulting position has the greatest value.
C1_BestMoveIsFirstOptimal ==
    [][calls' # calls =>
          /\ last'.op = "best_move"
          /\ last'.ret = "int"
          /\ last'.val = FirstOptimal(game_array)]_vars

\* best_move has returned a cell that is neither the first empty cell nor the
\* only one of greatest value
C1_Witness ==
    /\ last.op = "best_move"
    /\ last.ret = "int"
    /\ \E j \in Empties(game_array) :
           j < last.val /\ ValueOfMove(game_array, j) < ValueOfMove(game_array, last.val)
    /\ \E k \in Empties(game_array) :
           k > last.val /\ ValueOfMove(game_array, k) = ValueOfMove(game_array, last.val)

\* C2, as claimed (SpecSearch): whenever some empty cell would complete a
\* pattern for O at once, the cell best_move returns completes one at once.
C2_PrefersImmediateWin ==
    [][(calls' # calls /\ ImmediateWins(game_array) # {}) =>
          last'.val \in ImmediateWins(game_array)]_vars

\* C2, amended (SpecSearch): whenever some empty cell would complete a pattern
\* for O at once, best_move returns the smallest cell on which O wins by force,
\* whether or not that cell wins at once.
C2_ReturnsFirstWinningCell ==
    [][(calls' # calls /\ ImmediateWins(game_array) # {}) =>
          /\ last'.ret = "int"
          /\ last'.val = Smallest(WinningCells(game_array))]_vars

\* best_move has passed over a cell that wins at once for a smaller cell that
\* wins later
C2_Witness ==
    /\ last.op = "best_move"
    /\ last.ret = "int"
    /\ ImmediateWins(game_array) # {}
    /\ last.val \notin ImmediateWins(game_array)

\* C3 (SpecAI): in a game where X plays any free cell and O plays what
\* best_move returns, no pattern is ever filled by X.
C3_AINeverLoses == ~is_winning_move(size, game_array, players[1].symbol)

\* a game played to the last cell: X has placed five marks and not won
C3_Witness == GameOver /\ is_array_full(Self) /\ calls = 4

\* C4 (SpecSearch): a call of best_move leaves game_array and turn of the game
\* as they were, and every call of minimax made during it, at any depth,
\* returns with the list as it was given.
C4_SearchLeavesGameUntouched ==
    [][calls' # calls =>
          /\ UNCHANGED <<game_array, turn>>
          /\ best_move(Self, db).intact]_vars

\* best_move has searched the game tree below a board with a single mark
C4_Witness ==
    /\ last.op = "best_move"
    /\ last.ret = "int"
    /\ Occupied = 1
    /\ db # EmptyDb

C6_SearchIsIdempotent ==
    [][calls' # calls =>
          /\ UNCHANGED <<game_array, turn>>
          /\ \E again \in {best_move([game_array |-> game_array', turn |-> turn'], db')} :
                 /\ again.out = [ret |-> last'.ret, val |-> last'.val, exc |-> last'.exc]
                 /\ again.out.ret = "int"
                 /\ again.self = [game_array |-> game_array', turn |-> turn']]_vars

\* best_move has been called in mid-game and has filled the table
C6_Witness ==
    /\ last.op = "best_move"
    /\ last.ret = "int"
    /\ Occupied = 3
    /\ db # EmptyDb

(***************************************************************************)
(* Properties of the game operations (checked under Spec)                  *)
(***************************************************************************)
Winners == {players[k].symbol : k \in {j \in 1..Len(players) :
                is_winning_move(size, game_array, players[j].symbol)}}

OutOfRange(p) == p < 0 \/ p >= size * size

\* C7 as stated: in every state reached by accepted make_move calls, the state
\* right after the game-ending move included, the number of occupied cells is
\* the turn counter minus one.
C7_OccupiedIsTurnMinusOne == Occupied = turn - 1

\* C7 amended: while the game has not ended the number of occupied cells is
\* turn - 1; the move that ends the game does not advance the turn, so from then
\* on the number of occupied cells is at least the turn counter.
C7_OccupiedIsTurnMinusOneUntilEnd ==
    /\ ~is_end_of_game(Self) => Occupied = turn - 1
    /\ is_end_of_game(Self) => Occupied >= turn

C7_Witness ==
    /\ last.op = "make_move" /\ last.ret = "True"
    /\ is_end_of_game(Self) /\ Occupied = turn

\* C8: make_move on an occupied index raises MoveException and leaves the
\* game_array and the turn counter (hence the current player) as they were.
C8_OccupiedMoveRejected ==
    \A p \in Positions :
        is_position_taken(Self, p).ret = "True" =>
            /\ make_move(Self, p).out.exc = "MoveException"
            /\ make_move(Self, p).self = Self

C8_Witness ==
    /\ last.op = "make_move" /\ last.exc = "MoveException"
    /\ Occupied > 0

\* C9: for every index outside [0, N*N), negative ones included,
\* is_position_taken and make_move fail with an error and make_move leaves the
\* board and the turn counter unchanged.
C9_OutOfRangeRejected ==
    [][\A p \in Positions :
          OutOfRange(p) =>
              /\ MakeMove(p) => (last'.exc # "None" /\ UNCHANGED <<game_array, turn>>)
              /\ IsPositionTaken(p) => last'.exc # "None"]_vars

\* C10: get_winner returns the player whose symbol fills a winning pattern
\* when there is one, and None when no player fills a pattern.
C10_WinnerFillsPattern ==
    IF Winners = {} THEN get_winner(Self) = "None"
    ELSE get_winner(Self) \in Winners

C10_Witness ==
    /\ last.op = "make_move" /\ last.ret = "True"
    /\ is_winning_move(size, game_array, "O")
    /\ get_winner(Self) = "O"

\* C11: in every state reached by accepted make_move calls, is_end_of_game,
\* which looks at the current player's symbol only, is true exactly when some
\* player fills a winning pattern or no cell is empty.
C11_EndOfGameIsWinOrFull ==
    is_end_of_game(Self) <=> (Winners # {} \/ is_array_full(Self))

\* the second player has won on a board with empty cells left
C11_Witness ==
    /\ is_end_of_game(Self)
    /\ Winners = {players[2].symbol}
    /\ ~is_array_full(Self)

\* C12: on every board reached by accepted make_move calls at most one player
\* fills a winning pattern.
C12_AtMostOneWinner == Cardinality(Winners) <= 1

\* the winner has gone on placing marks after the game-ending move, and the
\* other player still fills no pattern
C12_Witness ==
    /\ Winners = {players[1].symbol}
    /\ Count(game_array, players[1].symbol) > Count(game_array, players[2].symbol) + 1

\* the cell an accepted make_move has marked, and whether the mark on cell c
\* completes a pattern of symbol
Placed == CHOOSE c \in DOMAIN game_array : game_array'[c] # game_array[c]

Completes(array, c, symbol) ==
    \E k \in 1..Len(winning_patterns) :
        /\ \E j \in 1..size : winning_patterns[k][j] = c
        /\ \A j \in 1..size : array[winning_patterns[k][j]] = symbol

\* whose mark the next one is when marks alternate starting with players[0]
NextInTurn == IF Occupied % num_players = 0 THEN players[1].symbol ELSE players[2].symbol

\* C13, as claimed: every accepted make_move places the mover's mark and returns
\* True exactly when that mark completes a pattern for the mover or fills the
\* last empty cell, and False otherwise; after False the current player is the
\* other player; marks placed before the game ends alternate, players[0] first.
C13_TrueIffCompletesOrFills ==
    [][game_array' # game_array =>
          /\ game_array'[Placed] = current_player(Self).symbol
          /\ last'.ret \in {"True", "False"}
          /\ last'.ret = "True" <=>
                 \/ Completes(game_array', Placed, current_player(Self).symbol)
                 \/ \A i \in DOMAIN game_array : game_array'[i] # " "
          /\ last'.ret = "False" =>
                 current_player([game_array |-> game_array', turn |-> turn']).symbol
                     # current_player(Self).symbol
          /\ ~is_end_of_game(Self) => game_array'[Placed] = NextInTurn]_vars

\* C13, amended: the equivalence holds for a make_move on a game that has not
\* ended; a make_move accepted after the end returns True whatever its mark
\* completes.
C13_TrueIffCompletesOrFillsUntilEnd ==
    [][game_array' # game_array =>
          /\ game_array'[Placed] = current_player(Self).symbol
          /\ last'.ret \in {"True", "False"}
          /\ ~is_end_of_game(Self) =>
                 (last'.ret = "True" <=>
                      \/ Completes(game_array', Placed, current_player(Self).symbol)
                      \/ \A i \in DOMAIN game_array : game_array'[i] # " ")
          /\ is_end_of_game(Self) => last'.ret = "True"
          /\ last'.ret = "False" =>
                 current_player([game_array |-> game_array', turn |-> turn']).symbol
                     # current_player(Self).symbol
          /\ ~is_end_of_game(Self) => game_array'[Placed] = NextInTurn]_vars

\* the second player has won and has then placed one more mark, for which
\* make_move returned True again
C13_Witness ==
    /\ last.op = "make_move" /\ last.ret = "True"
    /\ Winners = {players[2].symbol}
    /\ Count(game_array, players[2].symbol) > Count(game_array, players[1].symbol)

\* the list of patterns of size n is as the claim describes it
PatternsAsClaimed(n) ==
    /\ Len(create_winning_patterns(n)) = 2 * n + 2
    /\ \A k \in 1..Len(create_winning_patterns(n)) :
           /\ Len(create_winning_patterns(n)[k]) = n
           /\ Cardinality({create_winning_patterns(n)[k][j] : j \in 1..n}) = n
           /\ \A j \in 1..n : create_winning_patterns(n)[k][j] \in 0..(n * n - 1)
    /\ \A i \in 0..(n - 1) :
           /\ create_winning_patterns(n)[2 * i + 1] = [j \in 1..n |-> i * n + (j - 1)]
           /\ create_winning_patterns(n)[2 * i + 2] = [j \in 1..n |-> (j - 1) * n + i]
    /\ create_winning_patterns(n)[2 * n + 1] = [r \in 1..n |-> (r - 1) * n + (r - 1)]
    /\ create_winning_patterns(n)[2 * n + 2] = [r \in 1..n |-> (r - 1) * n + (n - r)]

SizesAsClaimed == {n \in 2..MaxN : PatternsAsClaimed(n)}

DocstringLists ==
    /\ create_winning_patterns(2) = << <<0, 1>>, <<0, 2>>, <<2, 3>>, <<1, 3>>, <<0, 3>>, <<1, 2>> >>
    /\ create_winning_patterns(3) =
           << <<0, 1, 2>>, <<0, 3, 6>>, <<3, 4, 5>>, <<1, 4, 7>>,
              <<6, 7, 8>>, <<2, 5, 8>>, <<0, 4, 8>>, <<2, 4, 6>> >>

\* C14: for every size n from 2 to MaxN, create_winning_patterns(n) is a list of
\* 2n+2 patterns of n distinct indices of the board each: row i and column i in
\* turn for i = 0..n-1, then the main diagonal, then the anti-diagonal
\* r*n + (n-1-r); for sizes 2 and 3 the list is the one the docstring gives; the
\* patterns of the game's size are cells of its game_array.
C14_PatternsOfEverySize ==
    /\ SizesAsClaimed = 2..MaxN
    /\ DocstringLists
    /\ \A k \in 1..Len(winning_patterns) :
           \A j \in 1..size : winning_patterns[k][j] \in DOMAIN game_array

\* a game has been won on the last pattern of the list, the anti-diagonal, and
\* on no other
C14_Witness ==
    /\ last.op = "make_move" /\ last.ret = "True"
    /\ \A j \in 1..size :
           game_array[winning_patterns[Len(winning_patterns)][j]] = players[1].symbol
    /\ Count(game_array, players[1].symbol) = size

(***************************************************************************)
(* Properties of the boards of legal play (checked under SpecSearch)       *)
(***************************************************************************)
\* the terminal checks of minimax that hold of a board: 1 for a pattern of
\* players[0], 2 for a pattern of players[1], 3 for no empty cell
TerminalChecks(array) ==
    {c \in 1..3 :
        \/ c = 1 /\ is_winning_move(size, array, players[1].symbol)
        \/ c = 2 /\ is_winning_move(size, array, players[2].symbol)
        \/ c = 3 /\ get_empty_indices(array) = << >>}

\* C15, as claimed: on every board of legal alternating play at most one of the
\* three terminal checks of minimax holds.
C15_TerminalChecksExclusive == Cardinality(TerminalChecks(game_array)) <= 1

\* C15, amended: on every board of legal alternating play the two pattern
\* checks never hold together and a pattern of players[1] never comes with a
\* full board; a pattern of players[0] may come with a full board.
C15_WinChecksExclusive ==
    /\ ~({1, 2} \subseteq TerminalChecks(game_array))
    /\ ~({2, 3} \subseteq TerminalChecks(game_array))

\* the first player has completed a pattern with the mark that filled the board
C15_Witness ==
    /\ GameOver
    /\ TerminalChecks(game_array) = {1, 3}

\* C16: best_move called on a board where some player fills a pattern or no
\* cell is empty is rejected with an error.
C16_TerminalBoardRejected ==
    TerminalChecks(game_array) # {} => best_move(Self, db).out.exc # "None"

\* C17: make_move(i) followed by clear_spot(i) leaves game_array and turn as
\* they were, for every empty cell i, also when the move ends the game; and the
\* game best_move has searched on ends the search with the turn it began with.
C17_MoveThenClearRestores ==
    /\ \A i \in Empties(game_array) : clear_spot(make_move(Self, i).self, i) = Self
    /\ (~GameOver /\ current_player(Self).is_ai) =>
           search(deepcopy(Self), db).game_copy.turn = turn

(***************************************************************************)
(* Properties of minimax on any board (checked under SpecMinimax)          *)
(***************************************************************************)
\* C18: for every board and either value of is_maximizer, minimax returns -1, 0
\* or 1, and every score in the table is -1, 0 or 1: the sentinels -9999 and
\* 9999 are neither returned nor stored.
C18_ScoresInRange ==
    /\ last.op = "minimax" => (last.ret = "int" /\ last.val \in {-1, 0, 1})
    /\ \A key \in DOMAIN db : db[key] \in {-1, 0, 1}

\* minimax has searched the whole tree below the empty board
C18_Witness ==
    /\ last.op = "minimax"
    /\ Occupied = 0
    /\ db # EmptyDb

(***************************************************************************)
(* Properties of whole games (checked under Spec)                          *)
(***************************************************************************)
\* C19: every accepted make_move marks one more cell; the one that marks the
\* last of the size*size cells returns True, so that no game has more than
\* size*size accepted moves without make_move returning True; and make_move
\* never returns True before the fifth accepted move (2*size - 1 for size 3).
C19_GameEndsWithinBoard ==
    [][game_array' # game_array =>
          /\ Occupied' = Occupied + 1
          /\ Occupied' <= size * size
          /\ Occupied' = size * size => last'.ret = "True"
          /\ last'.ret = "True" => Occupied' >= 2 * size - 1]_vars

\* make_move has returned True for the fifth mark
C19_Witness ==
    /\ last.op = "make_move" /\ last.ret = "True"
    /\ Occupied = 2 * size - 1

\* C20: make_move returns True only into a state where is_end_of_game holds, and
\* from such a state on the turn counter stays as it is, is_end_of_game stays
\* true, get_winner keeps its value, and every accepted make_move returns True.
C20_EndIsAbsorbing ==
    [][/\ (last'.op = "make_move" /\ last'.ret = "True") =>
              is_end_of_game([game_array |-> game_array', turn |-> turn'])
       /\ is_end_of_game(Self) =>
              /\ turn' = turn
              /\ is_end_of_game([game_array |-> game_array', turn |-> turn'])
              /\ get_winner([game_array |-> game_array', turn |-> turn']) = get_winner(Self)
              /\ game_array' # game_array => last'.ret = "True"]_vars

\* the first player has won and has then filled the rest of the board
C20_Witness ==
    /\ last.op = "make_move" /\ last.ret = "True"
    /\ get_winner(Self) = players[1].symbol
    /\ is_array_full(Self)
    /\ Count(game_array, players[1].symbol) > (size * size + 1) \div 2

====
